---- MODULE Spec2Model ----
(***************************************************************************)
(* Nation IntentKit API: the credential verifier (app/auth.py), the agent  *)
(* router (app/agent/router.py) and the chat router (app/chat/router.py)   *)
(* as a state machine over the storage the handlers read and write.        *)
(***************************************************************************)
EXTENDS Integers, Sequences, FiniteSets, Bags, TLC

VARIABLES
    config,     \* app.config.config: env, jwt_secret, privy_app_id, privy_api_key
    agents,     \* stored agents: records [id, owner]
    chats,      \* stored chat threads: records [id, agent_id, user_id, summary, rounds]
    messages,   \* stored chat messages
    nextXid,    \* the next value XID() hands out (time ordered, never reused)
    nextAgent,  \* the next agent id AgentCreate hands out
    inflight,   \* send_message requests suspended at an await
    pending,    \* bag of the requests of the other handlers suspended at an await
    resp,       \* the last response sent
    deleted,    \* history: chat ids for which delete_chat answered 204
    authIn,     \* the last input given to the credential verifier alone
    authOut,    \* the last outcome of the credential verifier alone
    pager,      \* a client paging through one thread with get_messages
    dispatch    \* one dispatch to the execution backend, with what it produced and sent

vars == <<config, agents, chats, messages, nextXid, nextAgent, inflight, pending,
          resp, deleted, authIn, authOut, pager, dispatch>>

(***************************************************************************)
(* Bounds of the model.                                                    *)
(***************************************************************************)
MaxXid == 1
MaxAgents == 1
MaxInflight == 1
MaxLimit == 3
MaxPageXid == 4
MaxAgentIds == 4
MaxSendXid == 3
MaxSendInflight == 2
MaxChunks == 3
MaxPending == 2
MaxThreadXid == 3


(***************************************************************************)
(* Values.                                                                 *)
(***************************************************************************)
None == "None"
Users == {"u1", "u2"}
TEST_USER_ID == "test_user_id"
BogusId == 0

\* Python truthiness of an Optional[str]
Truthy(x) == x # None /\ x # ""

\* str.endswith on strings kept as sequences of characters
endswith(s, suf) ==
    /\ Len(suf) <= Len(s)
    /\ \A i \in 1..Len(suf) : s[Len(s) - Len(suf) + i] = suf[i]

DEV == <<"d", "e", "v">>
PROD == <<"p", "r", "o", "d">>

Envs == { <<"l", "o", "c", "a", "l">>,
          DEV,
          <<"t", "-">> \o PROD,
          <<"d", "e", "v", "e", "l">> }

Secrets == {"s1", "s2"}

Configs == [ env : Envs,
             jwt_secret : {None, "", "s1"},
             privy_app_id : {None, "app"},
             privy_api_key : {None, "key"} ]

(***************************************************************************)
(* Tokens.  A signed claim set carries its algorithm, its payload and a    *)
(* signature computed from the signing key and the payload.                *)
(***************************************************************************)
NoSub == "NoSub"
NoAud == "NoAud"
Payloads == [ sub : Users \cup {NoSub}, aud : {NoAud, "u1"}, expired : BOOLEAN ]

Sign(key, payload) == <<key, payload>>

jwt_encode(payload, key, alg) ==
    [ form |-> "jwt", alg |-> alg, payload |-> payload, sig |-> Sign(key, payload) ]

EmptyToken == [ form |-> "empty", alg |-> None,
                payload |-> [sub |-> NoSub, aud |-> NoAud, expired |-> FALSE],
                sig |-> <<None, [sub |-> NoSub, aud |-> NoAud, expired |-> FALSE]>> ]
GarbageToken == [ form |-> "garbage", alg |-> None,
                  payload |-> [sub |-> NoSub, aud |-> NoAud, expired |-> FALSE],
                  sig |-> <<None, [sub |-> NoSub, aud |-> NoAud, expired |-> FALSE]>> ]

JwtTokens == { jwt_encode(p, k, a) : p \in Payloads, k \in Secrets, a \in {"HS256", "HS384"} }
Tokens == {EmptyToken, GarbageToken} \cup JwtTokens

\* jwt.decode(token, secret, algorithms=["HS256"]): the payload, or an exception
jwt_decode(token, secret) ==
    IF token.form # "jwt" THEN [ok |-> FALSE, payload |-> token.payload]
    ELSE IF token.alg # "HS256" THEN [ok |-> FALSE, payload |-> token.payload]
    ELSE IF token.sig # Sign(secret, token.payload) THEN [ok |-> FALSE, payload |-> token.payload]
    ELSE IF token.payload.expired THEN [ok |-> FALSE, payload |-> token.payload]
    ELSE IF token.payload.aud # NoAud THEN [ok |-> FALSE, payload |-> token.payload]
    ELSE [ok |-> TRUE, payload |-> token.payload]

(***************************************************************************)
(* The Authorization header and the OAuth2PasswordBearer dependency.       *)
(***************************************************************************)
NoHeader == [ scheme |-> None, token |-> EmptyToken ]
Headers == {NoHeader}
           \cup [ scheme : {"bearer"}, token : Tokens ]
           \cup [ scheme : {"basic"}, token : {GarbageToken} ]

Unauthorized(detail) == [ status |-> 401, detail |-> detail, user |-> None, branch |-> "none" ]
Identity(user, branch) == [ status |-> 200, detail |-> "", user |-> user, branch |-> branch ]

\* the replies of the external identity provider: verify_access_token gives
\* the claims' user_id or raises, users.get returns or raises
PrivyVerify == Users \cup {"raise"}
PrivyGet == {"ok", "raise"}

external_mode(cfg) == endswith(cfg.env, DEV) \/ endswith(cfg.env, PROD)

\* mutant: the outcome of the second provider lookup is ignored
get_user_id_unconfirmed(cfg, token, pv, pg) ==
    IF token.form = "empty" THEN Unauthorized("Missing Authorization header")
    ELSE IF external_mode(cfg) THEN
        IF pv = "raise" THEN Unauthorized("Invalid or expired token")
        ELSE Identity(pv, "privy")
    ELSE IF Truthy(cfg.jwt_secret) THEN
        LET d == jwt_decode(token, cfg.jwt_secret) IN
        IF ~d.ok THEN Unauthorized("Invalid or expired token")
        ELSE IF d.payload.sub = NoSub THEN Unauthorized("Invalid or expired token")
        ELSE Identity(d.payload.sub, "jwt")
    ELSE Identity(TEST_USER_ID, "open")

get_user_id(cfg, token, pv, pg) ==
    IF token.form = "empty" THEN Unauthorized("Missing Authorization header")
    ELSE IF external_mode(cfg) THEN
        IF pv = "raise" THEN Unauthorized("Invalid or expired token")
        ELSE IF pg = "raise" THEN Unauthorized("Invalid or expired token")
        ELSE Identity(pv, "privy")
    ELSE IF Truthy(cfg.jwt_secret) THEN
        LET d == jwt_decode(token, cfg.jwt_secret) IN
        IF ~d.ok THEN Unauthorized("Invalid or expired token")
        ELSE IF d.payload.sub = NoSub THEN Unauthorized("Invalid or expired token")
        ELSE Identity(d.payload.sub, "jwt")
    ELSE Identity(TEST_USER_ID, "open")

\* Depends(get_user_id) behind Depends(oauth2_scheme)
authenticate(cfg, header, pv, pg) ==
    IF header.scheme # "bearer" THEN Unauthorized("Not authenticated")
    ELSE get_user_id(cfg, header.token, pv, pg)

Creds == [ header : Headers, pv : PrivyVerify, pg : PrivyGet ]
Auth(cfg, cred) == authenticate(cfg, cred.header, cred.pv, cred.pg)

NoCred == [ header |-> NoHeader, pv |-> "raise", pg |-> "raise" ]

(***************************************************************************)
(* Storage: the agent, chat and message tables behind Agent.get, Chat.get, *)
(* ChatCreate.save, Chat.delete, ChatMessage.get and save_in_session.      *)
(***************************************************************************)
NoCursor == -1
EmptyCursor == 0

Agent_exists(aid) == \E a \in agents : a.id = aid
Agent_get(aid) == CHOOSE a \in agents : a.id = aid

Chat_exists(chat_id) == \E c \in chats : c.id = chat_id
Chat_get(chat_id) == CHOOSE c \in chats : c.id = chat_id

ChatMessage_exists(message_id) == \E m \in messages : m.id = message_id
ChatMessage_get(message_id) == CHOOSE m \in messages : m.id = message_id

\* mutant: the rows of the caller under every agent
Chat_get_by_agent_user_any_agent(aid, user_id) ==
    { c \in chats : c.user_id = user_id }

\* Chat.get_by_agent_user: the rows of the agent and the user
Chat_get_by_agent_user(aid, user_id) ==
    { c \in chats : c.agent_id = aid /\ c.user_id = user_id }

\* ChatMessageCreate.save_in_session(db): the row is written through db, the
\* session Depends(get_db) opened for this request. No handler commits that
\* session, so whether the call commits the row itself or only writes it
\* into the session is not decided by this repository: both outcomes
save_in_session(msgs, m) ==
    { [ messages |-> msgs \cup {m}, session |-> "committed" ],
      [ messages |-> msgs, session |-> "written" ] }

\* Depends(get_db) when the request is over: the session is closed. A row it
\* holds uncommitted is lost when the request ended with an exception; after
\* a normal end the exit either commits it or drops it
get_db(msgs, r, raised) ==
    IF r.session = "written" /\ ~raised THEN {msgs, msgs \cup {r.msg}} ELSE {msgs}

\* the session of a request after Depends(get_db) closed it
Closed(r) == IF r.session = "written" THEN "closed" ELSE r.session

\* ChatCreate.save: the thread is a row of the table
Chat_save(chs, chat) == chs \cup {chat}

\* Chat.delete: the row with the id of the loaded thread is gone, whether or
\* not it was still there
Chat_delete(chs, chat_id) == { c \in chs : c.id # chat_id }

\* AgentCreate.create: the agent is a row of the table
Agent_create(ags, agent) == ags \cup {agent}

RECURSIVE DescById(_)
\* the rows of S ordered by id, highest first
DescById(S) ==
    IF S = {} THEN <<>>
    ELSE LET top == CHOOSE m \in S : \A n \in S : n.id <= m.id
         IN <<top>> \o DescById(S \ {top})

Take(s, n) == SubSeq(s, 1, IF Len(s) < n THEN Len(s) ELSE n)

(***************************************************************************)
(* Handler outcomes: the response and the storage the handler leaves.      *)
(***************************************************************************)
Outcome(status, detail, body, ags, chs, msgs) ==
    [ status |-> status, detail |-> detail, body |-> body,
      agents |-> ags, chats |-> chs, messages |-> msgs ]

Reply(status, detail, body) == Outcome(status, detail, body, agents, chats, messages)

HTTPException(status, detail) == Reply(status, detail, <<>>)

\* app/api.py health_check
health_check == Reply(200, "", <<[status |-> "healthy", service |-> "Nation IntentKit API"]>>)

\* a handler that has not answered: what it holds and the storage it leaves
Running(body, ags, chs, msgs) == Outcome(0, "", body, ags, chs, msgs)

\* what a handler returns, with the shape FastAPI sees
Returned(kind, value) == [ kind |-> kind, value |-> value ]

\* FastAPI validates what the handler returned against the response_model of
\* the route: a value of another shape is a ResponseValidationError, which
\* the client gets as 500 Internal Server Error
serialize_response(response_model, ret) ==
    IF ret.kind = response_model
    THEN Reply(200, "", ret.value)
    ELSE HTTPException(500, "Internal Server Error")

\* mutant: the owner of the request body is kept
AgentCreate_body_owner(body_owner, user_id) == [ id |-> nextAgent, owner |-> body_owner ]

\* create_agent, lines 54-55: AgentCreate.model_validate(request), then the
\* owner is overwritten with the caller, whatever the body says. The id is
\* the one the library gives the new agent: the requests of
\* tests/test_agents.py:94-122 carry none and get three different ids
AgentCreate(body_owner, user_id) == [ id |-> nextAgent, owner |-> user_id ]

\* create_agent, line 56: await agent_create.create()
create_agent_create(agent) ==
    Running(<<agent>>, Agent_create(agents, agent), chats, messages)

\* create_agent, lines 58-59: the response built from latest_agent
create_agent_return(latest_agent) ==
    serialize_response("AgentResponse", Returned("AgentResponse", <<latest_agent>>))

\* get_agent, lines 75-79: await Agent.get(aid), the guard
get_agent_guard(aid, user_id) ==
    IF ~Agent_exists(aid) \/ Agent_get(aid).owner # user_id
    THEN HTTPException(404, "Agent not found")
    ELSE Running(<<Agent_get(aid)>>, agents, chats, messages)

\* get_agent, lines 80-81: the response built from the agent read
get_agent_return(agent) ==
    serialize_response("AgentResponse", Returned("AgentResponse", <<agent>>))

\* get_chats, line 138: the rows Chat.get_by_agent_user gave for the path aid
\* and the caller, returned as they came; the handler neither orders nor
\* filters them, so the body is the collection of rows
get_chats(aid, user_id) == Reply(200, "", Chat_get_by_agent_user(aid, user_id))

\* create_chat, lines 153-159: the thread built with a new id
ChatCreate(aid, user_id) ==
    [ id |-> nextXid, agent_id |-> aid, user_id |-> user_id,
      summary |-> "", rounds |-> 0 ]

\* create_chat, line 160: await chat.save()
create_chat_save(chat) ==
    Running(<<chat>>, agents, Chat_save(chats, chat), messages)

\* create_chat, lines 162-163: the thread is read back and what Chat.get
\* gives, the thread or None, is returned under response_model=Chat
create_chat_return(chat_id) ==
    serialize_response("Chat",
                       IF Chat_exists(chat_id)
                       THEN Returned("Chat", <<Chat_get(chat_id)>>)
                       ELSE Returned("None", <<>>))

get_chat(aid, chat_id, user_id) ==
    IF \/ ~Chat_exists(chat_id)
       \/ Chat_get(chat_id).agent_id # aid
       \/ Chat_get(chat_id).user_id # user_id
    THEN HTTPException(404, "Chat not found")
    ELSE Reply(200, "", <<Chat_get(chat_id)>>)

\* mutant: the summary of the request body is written to the thread
update_chat_persisted(aid, chat_id, user_id) ==
    IF \/ ~Chat_exists(chat_id)
       \/ Chat_get(chat_id).agent_id # aid
       \/ Chat_get(chat_id).user_id # user_id
    THEN HTTPException(404, "Chat not found")
    ELSE LET chat == [Chat_get(chat_id) EXCEPT !.summary = "Updated summary"]
         IN Outcome(200, "", <<chat>>, agents,
                    (chats \ {Chat_get(chat_id)}) \cup {chat}, messages)

update_chat(aid, chat_id, user_id) ==
    IF \/ ~Chat_exists(chat_id)
       \/ Chat_get(chat_id).agent_id # aid
       \/ Chat_get(chat_id).user_id # user_id
    THEN HTTPException(404, "Chat not found")
    ELSE Reply(200, "", <<Chat_get(chat_id)>>)

\* mutant: a thread of another caller is refused with a permission error
delete_chat_guard_forbidden(aid, chat_id, user_id) ==
    IF ~Chat_exists(chat_id) THEN HTTPException(404, "Chat not found")
    ELSE IF \/ Chat_get(chat_id).agent_id # aid
            \/ Chat_get(chat_id).user_id # user_id
    THEN HTTPException(403, "Forbidden")
    ELSE Running(<<Chat_get(chat_id)>>, agents, chats, messages)

\* delete_chat, lines 226-230: the thread loaded and the guard
delete_chat_guard(aid, chat_id, user_id) ==
    IF \/ ~Chat_exists(chat_id)
       \/ Chat_get(chat_id).agent_id # aid
       \/ Chat_get(chat_id).user_id # user_id
    THEN HTTPException(404, "Chat not found")
    ELSE Running(<<Chat_get(chat_id)>>, agents, chats, messages)

\* mutant: the thread is answered as deleted and kept
delete_chat_delete_kept(chat_id) == Outcome(204, "", <<>>, agents, chats, messages)

\* delete_chat, lines 231-232: await chat.delete(), then 204
delete_chat_delete(chat_id) ==
    Outcome(204, "", <<>>, agents, Chat_delete(chats, chat_id), messages)

CursorGiven(cursor) == cursor # NoCursor /\ cursor # EmptyCursor

\* mutant: the statement fetches limit rows, without the probe row
select_messages_exact(aid, chat_id, cursor, limit) ==
    Take(DescById({ m \in messages :
                      /\ m.agent_id = aid
                      /\ m.chat_id = chat_id
                      /\ (CursorGiven(cursor) => m.id < cursor) }),
         limit)

\* the statement of get_messages: filter, order by id descending, limit + 1
select_messages(aid, chat_id, cursor, limit) ==
    Take(DescById({ m \in messages :
                      /\ m.agent_id = aid
                      /\ m.chat_id = chat_id
                      /\ (CursorGiven(cursor) => m.id < cursor) }),
         limit + 1)

page_of(rows, limit) ==
    LET has_more == Len(rows) > limit
        messages_to_return == Take(rows, limit)
        next_cursor == IF has_more /\ messages_to_return # <<>>
                       THEN messages_to_return[Len(messages_to_return)].id
                       ELSE NoCursor
    IN [ data |-> messages_to_return, has_more |-> has_more, next_cursor |-> next_cursor ]

\* get_messages, lines 255-259: the thread loaded and the guard
get_messages_guard(aid, chat_id, user_id) ==
    IF \/ ~Chat_exists(chat_id)
       \/ Chat_get(chat_id).agent_id # aid
       \/ Chat_get(chat_id).user_id # user_id
    THEN HTTPException(404, "Chat not found")
    ELSE Running(<<Chat_get(chat_id)>>, agents, chats, messages)

\* get_messages, lines 263-281: the statement run and the dict returned
get_messages_return(aid, chat_id, cursor, limit) ==
    Returned("dict", <<page_of(select_messages(aid, chat_id, cursor, limit), limit)>>)

\* the route of get_messages, lines 235-241: response_model=List[ChatMessage]
get_messages_response(ret) == serialize_response("List[ChatMessage]", ret)

get_message(message_id, user_id) ==
    IF ~ChatMessage_exists(message_id) \/ ChatMessage_get(message_id).user_id # user_id
    THEN HTTPException(404, "Message not found")
    ELSE Reply(200, "", <<ChatMessage_get(message_id)>>)

\* mutant: the stub answers as if the retry had been done
retry_message_accepted(aid, chat_id, user_id) == Reply(200, "", <<>>)

retry_message(aid, chat_id, user_id) == HTTPException(501, "Not Implemented")

\* mutant: the message is attributed to the user the request body names
ChatMessageCreate_body_user(aid, chat_id, user_id, request) ==
    [ id |-> nextXid, agent_id |-> aid, chat_id |-> chat_id,
      user_id |-> request.user_id, author_id |-> request.user_id,
      author_type |-> "api", thread_type |-> "api",
      message |-> request.message ]

\* send_message up to its first write: the agent lookup and the message built
ChatMessageCreate(aid, chat_id, user_id, request) ==
    [ id |-> nextXid, agent_id |-> aid, chat_id |-> chat_id,
      user_id |-> user_id, author_id |-> user_id,
      author_type |-> "api", thread_type |-> "api",
      message |-> request.message ]

send_message_agent_missing(aid) == ~Agent_exists(aid)

\* a request past line 324: the message is built, the next statement is the
\* write of line 325, then the dispatch of lines 327-336
Accepted(msg, stream) ==
    [ msg |-> msg, stream |-> stream, pc |-> "save", session |-> "empty" ]

(***************************************************************************)
(* Inputs the requests are drawn from.                                     *)
(***************************************************************************)
\* path ids: one that was never handed out, and those of the stored entities
AidInputs == {BogusId} \cup {a.id : a \in agents}
ChatIdInputs == {BogusId} \cup {c.id : c \in chats} \cup deleted
MessageIdInputs == {BogusId} \cup {m.id : m \in messages}
LimitInputs == 1..MaxLimit
Texts == {"hello"}
\* the user_id field of the request body: another user of the API, and a
\* name no credential stands for
BodyUsers == {"u2", "user-456"}
SendRequests == [ user_id : BodyUsers, message : Texts, stream : {"true", None} ]

LocalConfig == [ env |-> <<"l", "o", "c", "a", "l">>, jwt_secret |-> "s1",
                 privy_app_id |-> None, privy_api_key |-> None ]

GoodPayload(u) == [ sub |-> u, aud |-> NoAud, expired |-> FALSE ]
Bearer(t) == [ scheme |-> "bearer", token |-> t ]
LocalCred(h) == [ header |-> h, pv |-> "raise", pg |-> "raise" ]

\* the credentials the requests of the API carry: none, an empty token, one
\* signed with another secret, and one for each user signed with the
\* configured secret
ApiCreds == { LocalCred(NoHeader),
              LocalCred(Bearer(EmptyToken)),
              LocalCred(Bearer(jwt_encode(GoodPayload("u1"), "s2", "HS256"))),
              LocalCred(Bearer(jwt_encode(GoodPayload("u1"), "s1", "HS256"))),
              LocalCred(Bearer(jwt_encode(GoodPayload("u2"), "s1", "HS256"))) }

NotInvoked == [ status |-> 0, detail |-> "", user |-> None, branch |-> "none" ]

(***************************************************************************)
(* The last response, with what the request addressed: target says whether *)
(* the addressed entity was absent, deleted, the caller's own or foreign   *)
(* when the request arrived; auth says whether the credential was accepted.*)
(***************************************************************************)
Resp(op, auth, status, target, id, changed) ==
    [ op |-> op, auth |-> auth, status |-> status,
      target |-> target, id |-> id, changed |-> changed ]
NoResp == Resp("none", "none", 0, "none", BogusId, FALSE)

ChatTarget(aid, chat_id, user_id) ==
    IF chat_id \in deleted THEN "deleted"
    ELSE IF ~Chat_exists(chat_id) THEN "absent"
    ELSE IF Chat_get(chat_id).agent_id = aid /\ Chat_get(chat_id).user_id = user_id
         THEN "own" ELSE "foreign"

MessageTarget(message_id, user_id) ==
    IF ~ChatMessage_exists(message_id) THEN "absent"
    ELSE IF ChatMessage_get(message_id).user_id = user_id THEN "own" ELSE "foreign"

AgentTarget(aid, user_id) ==
    IF ~Agent_exists(aid) THEN "absent"
    ELSE IF Agent_get(aid).owner = user_id THEN "own" ELSE "foreign"

\* no dispatch yet: no backend script, nothing pulled, nothing sent
NoDispatch == [ pc |-> "idle", chunks |-> <<>>, fails |-> FALSE, pulled |-> 0,
                emitted |-> <<>>, status |-> 0, body |-> <<>>, client |-> "none" ]

\* no page yet
NoPage == [ data |-> <<>>, has_more |-> FALSE, next_cursor |-> NoCursor ]

\* the client of get_messages before its request: the query values, the ids
\* committed to the thread when the request arrived, what the handler
\* returned and the status the client got
NoPager == [ state |-> "idle", limit |-> 1, cursor |-> NoCursor, committed |-> {},
             page |-> NoPage, status |-> 0 ]

\* mutant: the handler body runs whatever the credential
Guarded_open(a, o) == o

\* Depends(get_user_id): the handler body runs only with an identity
Guarded(a, o) == IF a.status # 200 THEN HTTPException(401, a.detail) ELSE o

\* a handler with one await: the storage read and the response sent
Apply(op, a, o, target) ==
    LET g == Guarded(a, o) IN
    /\ resp = NoResp
    /\ agents' = g.agents
    /\ chats' = g.chats
    /\ messages' = g.messages
    /\ resp' = Resp(op, IF a.status = 200 THEN "ok" ELSE "fail", g.status,
                    IF a.status = 200 THEN target ELSE "none", BogusId,
                    <<g.agents, g.chats, g.messages>> # <<agents, chats, messages>>)

\* a request of a handler with several awaits, suspended at pc: the caller,
\* what the request addressed when it arrived, and its path and query values
Pending(op, pc, user, target, aid, id, cursor, limit) ==
    [ op |-> op, pc |-> pc, user |-> user, target |-> target,
      aid |-> aid, id |-> id, cursor |-> cursor, limit |-> limit,
      owner |-> user ]

\* the request goes on to its next await
Resume(p, pc) == (pending (-) SetToBag({p})) (+) SetToBag({[p EXCEPT !.pc = pc]})

\* the first step of such a handler: with g still running the request is
\* suspended as p, otherwise g is the response
Suspend(op, a, g, target, p, requests) ==
    /\ resp = NoResp
    /\ IF g.status = 0
       THEN /\ BagCardinality(pending) < requests
            /\ pending' = pending (+) SetToBag({p})
            /\ UNCHANGED resp
       ELSE /\ resp' = Resp(op, IF a.status = 200 THEN "ok" ELSE "fail", g.status,
                            IF a.status = 200 THEN target ELSE "none", BogusId, FALSE)
            /\ UNCHANGED pending

\* the last step of such a handler: the response o is sent
Finish(p, o, changed) ==
    /\ resp = NoResp
    /\ resp' = Resp(p.op, "ok", o.status, p.target, BogusId, changed)
    /\ pending' = pending (-) SetToBag({p})

(***************************************************************************)
(* The API: one action per endpoint; send_message suspends at its awaits.  *)
(***************************************************************************)
Init ==
    /\ config = LocalConfig
    /\ agents = {}
    /\ chats = {}
    /\ messages = {}
    /\ nextXid = 1
    /\ nextAgent = 1
    /\ inflight = {}
    /\ pending = EmptyBag
    /\ resp = NoResp
    /\ deleted = {}
    /\ authIn = NoCred
    /\ authOut = NotInvoked
    /\ pager = NoPager
    /\ dispatch = NoDispatch

Health ==
    /\ resp = NoResp
    /\ resp' = Resp("health", "none", health_check.status, "none", BogusId, FALSE)
    /\ UNCHANGED <<config, agents, chats, messages, nextXid, nextAgent, inflight,
                   deleted, authIn, authOut, pager, dispatch, pending>>

\* create_agent, lines 54-55: the credential, the agent built with the caller
\* as owner; the request goes on to the await of line 56 holding the agent
CreateAgentUpTo(bound, requests) ==
    \E cred \in ApiCreds, body_owner \in BodyUsers :
        LET a == Auth(config, cred)
            agent == AgentCreate(body_owner, a.user)
            g == Guarded(a, Running(<<agent>>, agents, chats, messages))
        IN
        /\ nextAgent <= bound
        /\ Suspend("create_agent", a, g, "none",
                   [Pending("create_agent", "create", a.user, "none", agent.id, BogusId,
                            NoCursor, 1) EXCEPT !.owner = agent.owner],
                   requests)
        /\ nextAgent' = IF g.status = 0 THEN nextAgent + 1 ELSE nextAgent
        /\ UNCHANGED <<config, agents, chats, messages, nextXid, inflight, deleted,
                       authIn, authOut, pager, dispatch>>

CreateAgent == CreateAgentUpTo(MaxAgents, MaxPending)

\* create_agent, line 56: await agent_create.create(), the row is written
CreateAgentCreate ==
    \E p \in BagToSet(pending) :
        /\ p.op = "create_agent" /\ p.pc = "create"
        /\ agents' = create_agent_create([id |-> p.aid, owner |-> p.owner]).agents
        /\ pending' = Resume(p, "return")
        /\ UNCHANGED <<config, chats, messages, nextXid, nextAgent, inflight, resp,
                       deleted, authIn, authOut, pager, dispatch>>

\* create_agent, lines 58-59: await AgentResponse.from_agent(latest_agent)
CreateAgentReturn ==
    \E p \in BagToSet(pending) :
        /\ p.op = "create_agent" /\ p.pc = "return"
        /\ Finish(p, create_agent_return([id |-> p.aid, owner |-> p.owner]), TRUE)
        /\ UNCHANGED <<config, agents, chats, messages, nextXid, nextAgent, inflight,
                       deleted, authIn, authOut, pager, dispatch>>

\* get_agent, lines 75-79: the credential, the agent loaded, the guard
GetAgent ==
    \E cred \in ApiCreds, aid \in AidInputs :
        LET a == Auth(config, cred)
            g == Guarded(a, get_agent_guard(aid, a.user))
        IN
        /\ Suspend("get_agent", a, g, AgentTarget(aid, a.user),
                   Pending("get_agent", "return", a.user, AgentTarget(aid, a.user),
                           aid, BogusId, NoCursor, 1),
                   MaxPending)
        /\ UNCHANGED <<config, agents, chats, messages, nextXid, nextAgent, inflight,
                       deleted, authIn, authOut, pager, dispatch>>

\* get_agent, lines 80-81: await AgentResponse.from_agent(agent), return
GetAgentReturn ==
    \E p \in BagToSet(pending) :
        /\ p.op = "get_agent"
        /\ Finish(p, get_agent_return([id |-> p.aid, owner |-> p.user]), FALSE)
        /\ UNCHANGED <<config, agents, chats, messages, nextXid, nextAgent, inflight,
                       deleted, authIn, authOut, pager, dispatch>>

GetChats ==
    \E cred \in ApiCreds, aid \in AidInputs :
        LET a == Auth(config, cred) IN
        /\ Apply("get_chats", a, get_chats(aid, a.user), "none")
        /\ UNCHANGED <<config, nextXid, nextAgent, inflight, deleted, authIn, authOut, pager, dispatch, pending>>

\* create_chat, lines 153-159: the credential and the thread built with a new id
CreateChatUpTo(xids) ==
    \E cred \in ApiCreds, aid \in AidInputs :
        LET a == Auth(config, cred)
            chat == ChatCreate(aid, a.user)
            g == Guarded(a, Running(<<chat>>, agents, chats, messages))
        IN
        /\ nextXid <= xids
        /\ Suspend("create_chat", a, g, AgentTarget(aid, a.user),
                   Pending("create_chat", "save", a.user, AgentTarget(aid, a.user),
                           aid, chat.id, NoCursor, 1),
                   MaxPending)
        /\ nextXid' = IF g.status = 0 THEN nextXid + 1 ELSE nextXid
        /\ UNCHANGED <<config, agents, chats, messages, nextAgent, inflight, deleted,
                       authIn, authOut, pager, dispatch>>

CreateChat == CreateChatUpTo(MaxXid)

\* create_chat, line 160: await chat.save()
CreateChatSave ==
    \E p \in BagToSet(pending) :
        /\ p.op = "create_chat" /\ p.pc = "save"
        /\ chats' = create_chat_save([ id |-> p.id, agent_id |-> p.aid, user_id |-> p.user,
                                       summary |-> "", rounds |-> 0 ]).chats
        /\ pending' = Resume(p, "return")
        /\ UNCHANGED <<config, agents, messages, nextXid, nextAgent, inflight, resp,
                       deleted, authIn, authOut, pager, dispatch>>

\* create_chat, lines 162-163: await Chat.get(chat.id), return full_chat
CreateChatReturn ==
    \E p \in BagToSet(pending) :
        /\ p.op = "create_chat" /\ p.pc = "return"
        /\ Finish(p, create_chat_return(p.id), TRUE)
        /\ UNCHANGED <<config, agents, chats, messages, nextXid, nextAgent, inflight,
                       deleted, authIn, authOut, pager, dispatch>>

GetChat ==
    \E cred \in ApiCreds, aid \in AidInputs, chat_id \in ChatIdInputs :
        LET a == Auth(config, cred) IN
        /\ Apply("get_chat", a, get_chat(aid, chat_id, a.user),
                 ChatTarget(aid, chat_id, a.user))
        /\ UNCHANGED <<config, nextXid, nextAgent, inflight, deleted, authIn, authOut, pager, dispatch, pending>>

UpdateChat ==
    \E cred \in ApiCreds, aid \in AidInputs, chat_id \in ChatIdInputs :
        LET a == Auth(config, cred) IN
        /\ Apply("update_chat", a, update_chat(aid, chat_id, a.user),
                 ChatTarget(aid, chat_id, a.user))
        /\ UNCHANGED <<config, nextXid, nextAgent, inflight, deleted, authIn, authOut, pager, dispatch, pending>>

\* delete_chat, lines 226-230: the credential, the thread loaded, the guard
DeleteChat ==
    \E cred \in ApiCreds, aid \in AidInputs, chat_id \in ChatIdInputs :
        LET a == Auth(config, cred)
            g == Guarded(a, delete_chat_guard(aid, chat_id, a.user))
        IN
        /\ Suspend("delete_chat", a, g, ChatTarget(aid, chat_id, a.user),
                   Pending("delete_chat", "delete", a.user,
                           ChatTarget(aid, chat_id, a.user), aid, chat_id, NoCursor, 1),
                   MaxPending)
        /\ UNCHANGED <<config, agents, chats, messages, nextXid, nextAgent, inflight,
                       deleted, authIn, authOut, pager, dispatch>>

\* delete_chat, lines 231-232: await chat.delete(), then 204
DeleteChatDelete ==
    \E p \in BagToSet(pending) :
        LET o == delete_chat_delete(p.id) IN
        /\ p.op = "delete_chat"
        /\ Finish(p, o, o.chats # chats)
        /\ chats' = o.chats
        /\ deleted' = IF o.status = 204 THEN deleted \cup {p.id} ELSE deleted
        /\ UNCHANGED <<config, agents, messages, nextXid, nextAgent, inflight,
                       authIn, authOut, pager, dispatch>>

\* get_messages, lines 255-259: the credential, the thread loaded, the guard
GetMessages ==
    \E cred \in ApiCreds, aid \in AidInputs, chat_id \in ChatIdInputs,
       cursor \in {NoCursor}, limit \in {1} :
        LET a == Auth(config, cred)
            g == Guarded(a, get_messages_guard(aid, chat_id, a.user))
        IN
        /\ Suspend("get_messages", a, g, ChatTarget(aid, chat_id, a.user),
                   Pending("get_messages", "query", a.user,
                           ChatTarget(aid, chat_id, a.user), aid, chat_id, cursor, limit),
                   MaxPending)
        /\ UNCHANGED <<config, agents, chats, messages, nextXid, nextAgent, inflight,
                       deleted, authIn, authOut, pager, dispatch>>

\* get_messages, lines 263-281: await db.scalars(stmt), the dict returned and
\* validated against the response_model of the route
GetMessagesReturn ==
    \E p \in BagToSet(pending) :
        /\ p.op = "get_messages"
        /\ Finish(p, get_messages_response(
                         get_messages_return(p.aid, p.id, p.cursor, p.limit)), FALSE)
        /\ UNCHANGED <<config, agents, chats, messages, nextXid, nextAgent, inflight,
                       deleted, authIn, authOut, pager, dispatch>>

GetMessage ==
    \E cred \in ApiCreds, message_id \in MessageIdInputs :
        LET a == Auth(config, cred) IN
        /\ Apply("get_message", a, get_message(message_id, a.user),
                 MessageTarget(message_id, a.user))
        /\ UNCHANGED <<config, nextXid, nextAgent, inflight, deleted, authIn, authOut, pager, dispatch, pending>>

RetryMessage ==
    \E cred \in ApiCreds, aid \in AidInputs, chat_id \in ChatIdInputs :
        LET a == Auth(config, cred) IN
        /\ Apply("retry_message", a, retry_message(aid, chat_id, a.user), "none")
        /\ UNCHANGED <<config, nextXid, nextAgent, inflight, deleted, authIn, authOut, pager, dispatch, pending>>

\* send_message, lines 298-324: credential, agent lookup, the message built with a new id
SendStartUpTo(xids, requests) ==
    \E cred \in ApiCreds, aid \in AidInputs, chat_id \in ChatIdInputs,
       request \in SendRequests :
        LET a == Auth(config, cred)
            g == Guarded(a, IF send_message_agent_missing(aid)
                            THEN HTTPException(404, "Agent {aid} not found")
                            ELSE Reply(200, "", <<>>))
        IN
        /\ resp = NoResp
        /\ Cardinality(inflight) < requests
        /\ nextXid <= xids
        /\ IF g.status # 200
           THEN /\ resp' = Resp("send_message", IF a.status = 200 THEN "ok" ELSE "fail",
                                g.status,
                                IF a.status = 200 THEN AgentTarget(aid, a.user) ELSE "none",
                                BogusId, FALSE)
                /\ UNCHANGED <<inflight, nextXid>>
           ELSE /\ inflight' = inflight \cup
                      { Accepted(ChatMessageCreate(aid, chat_id, a.user, request),
                                 request.stream = "true") }
                /\ nextXid' = nextXid + 1
                /\ UNCHANGED resp
        /\ UNCHANGED <<config, agents, chats, messages, nextAgent, deleted,
                       authIn, authOut, pager, dispatch, pending>>

SendStart == SendStartUpTo(MaxXid, MaxInflight)

Advance(r, pc) == (inflight \ {r}) \cup {[r EXCEPT !.pc = pc]}

\* line 325: await user_message.save_in_session(db)
SendSave ==
    \E r \in inflight :
        /\ r.pc = "save"
        /\ \E saved \in save_in_session(messages, r.msg) :
              /\ messages' = saved.messages
              /\ inflight' = (inflight \ {r}) \cup
                               {[r EXCEPT !.pc = "dispatch", !.session = saved.session]}
        /\ UNCHANGED <<config, agents, chats, nextXid, nextAgent, resp, deleted,
                       authIn, authOut, pager, dispatch, pending>>

SendResp(r, op, status) == Resp(op, "ok", status, "none", r.msg.id, FALSE)

\* lines 335-336: execute_agent returns its messages; the request ends and
\* its session is closed
ExecuteReturn ==
    \E r \in inflight :
        /\ resp = NoResp
        /\ r.pc = "dispatch" /\ ~r.stream
        /\ inflight' = inflight \ {r}
        /\ messages' \in get_db(messages, r, FALSE)
        /\ resp' = SendResp(r, "send_message", 200)
        /\ UNCHANGED <<config, agents, chats, nextXid, nextAgent, deleted,
                       authIn, authOut, pager, dispatch, pending>>

\* line 335: execute_agent raises; the request ends as a server error and
\* its session is closed by the exception
ExecuteRaise ==
    \E r \in inflight :
        /\ resp = NoResp
        /\ r.pc = "dispatch" /\ ~r.stream
        /\ inflight' = inflight \ {r}
        /\ messages' \in get_db(messages, r, TRUE)
        /\ resp' = SendResp(r, "send_message", 500)
        /\ UNCHANGED <<config, agents, chats, nextXid, nextAgent, deleted,
                       authIn, authOut, pager, dispatch, pending>>

\* line 333: the StreamingResponse is returned, nothing pulled yet. The
\* handler is over: its session is closed now, or stays open until the
\* response has been sent, as the framework has it
StreamStart ==
    \E r \in inflight :
        /\ resp = NoResp
        /\ r.pc = "dispatch" /\ r.stream
        /\ \/ /\ inflight' = Advance(r, "streaming")
              /\ UNCHANGED messages
           \/ /\ r.session = "written"
              /\ inflight' = (inflight \ {r}) \cup
                               {[r EXCEPT !.pc = "streaming", !.session = Closed(r)]}
              /\ messages' \in get_db(messages, r, FALSE)
        /\ resp' = SendResp(r, "send_message_stream", 200)
        /\ UNCHANGED <<config, agents, chats, nextXid, nextAgent, deleted,
                       authIn, authOut, pager, dispatch, pending>>

\* line 330: stream_agent is exhausted; a session still open is closed
StreamEnd ==
    \E r \in inflight :
        /\ r.pc = "streaming"
        /\ inflight' = inflight \ {r}
        /\ messages' \in get_db(messages, r, FALSE)
        /\ UNCHANGED <<config, agents, chats, nextXid, nextAgent, resp, deleted,
                       authIn, authOut, pager, dispatch, pending>>

\* line 330: stream_agent raises while the response is being sent; a session
\* still open is closed by the exception
StreamRaise ==
    \E r \in inflight :
        /\ resp = NoResp
        /\ r.pc = "streaming"
        /\ inflight' = inflight \ {r}
        /\ messages' \in get_db(messages, r, TRUE)
        /\ resp' = SendResp(r, "stream_abort", 200)
        /\ UNCHANGED <<config, agents, chats, nextXid, nextAgent, deleted,
                       authIn, authOut, pager, dispatch, pending>>

\* the response is delivered to its client
Deliver ==
    /\ resp # NoResp
    /\ resp' = NoResp
    /\ UNCHANGED <<config, agents, chats, messages, nextXid, nextAgent, inflight,
                   deleted, authIn, authOut, pager, dispatch, pending>>

Next ==
    \/ Deliver
    \/ Health
    \/ CreateAgent
    \/ CreateAgentCreate
    \/ CreateAgentReturn
    \/ GetAgent
    \/ GetAgentReturn
    \/ GetChats
    \/ CreateChat
    \/ CreateChatSave
    \/ CreateChatReturn
    \/ GetChat
    \/ UpdateChat
    \/ DeleteChat
    \/ DeleteChatDelete
    \/ GetMessages
    \/ GetMessagesReturn
    \/ GetMessage
    \/ RetryMessage
    \/ SendStart
    \/ SendSave
    \/ ExecuteReturn
    \/ ExecuteRaise
    \/ StreamStart
    \/ StreamEnd
    \/ StreamRaise

Spec == Init /\ [][Next]_vars

(***************************************************************************)
(* The credential verifier alone, over every configuration and credential. *)
(***************************************************************************)
AuthInit ==
    /\ config \in Configs
    /\ agents = {}
    /\ chats = {}
    /\ messages = {}
    /\ nextXid = 1
    /\ nextAgent = 1
    /\ inflight = {}
    /\ pending = EmptyBag
    /\ resp = NoResp
    /\ deleted = {}
    /\ authIn = NoCred
    /\ authOut = NotInvoked
    /\ pager = NoPager
    /\ dispatch = NoDispatch

Authenticate ==
    \E cred \in Creds :
        /\ authOut = NotInvoked
        /\ authIn' = cred
        /\ authOut' = Auth(config, cred)
        /\ UNCHANGED <<config, agents, chats, messages, nextXid, nextAgent, inflight,
                       resp, deleted, pager, dispatch, pending>>

AuthNext == Authenticate

SpecAuth == AuthInit /\ [][AuthNext]_vars

(***************************************************************************)
(* A client of get_messages on the thread (PageAid, PageChat), its owner,  *)
(* while send_message requests of the owner are under way: a request takes *)
(* its id when the message is built and commits it at its write, before,   *)
(* between or after the two awaits of get_messages.                        *)
(***************************************************************************)
PageThread == [ aid |-> 1, chat_id |-> 1, user |-> "u1" ]
PageAid == PageThread.aid
PageChat == PageThread.chat_id
PageUser == PageThread.user

PageInit ==
    /\ config = LocalConfig
    /\ agents = { [id |-> PageAid, owner |-> PageUser], [id |-> PageAid + 1, owner |-> PageUser] }
    /\ chats = { [id |-> PageChat, agent_id |-> PageAid, user_id |-> PageUser,
                  summary |-> "", rounds |-> 0] }
    /\ messages = {}
    /\ nextXid = PageChat + 1
    /\ nextAgent = PageAid + 2
    /\ inflight = {}
    /\ pending = EmptyBag
    /\ resp = NoResp
    /\ deleted = {}
    /\ authIn = NoCred
    /\ authOut = NotInvoked
    /\ pager = NoPager
    /\ dispatch = NoDispatch

\* send_message of the thread's owner, lines 298-324: the message built
PageAccept ==
    \E target \in {<<PageAid, PageChat>>, <<PageAid, BogusId>>, <<PageAid + 1, PageChat>>},
       request \in { r \in SendRequests : r.stream = None /\ r.user_id = "u2" } :
        /\ nextXid <= MaxPageXid
        /\ inflight' = inflight \cup
              { Accepted(ChatMessageCreate(target[1], target[2], PageUser, request),
                         request.stream = "true") }
        /\ nextXid' = nextXid + 1
        /\ UNCHANGED <<config, agents, chats, messages, nextAgent, pending, resp, deleted,
                       authIn, authOut, pager, dispatch>>

\* the rows of the thread that are committed
CommittedIds == { m.id : m \in { n \in messages :
                                  n.agent_id = PageAid /\ n.chat_id = PageChat } }

\* the cursor of the request: none, the empty string, or a message id
CursorInputs == {NoCursor, EmptyCursor} \cup (PageChat + 1)..MaxPageXid

\* get_messages of the owner, lines 255-259: the thread loaded, the guard passed
PageRequest ==
    \E cursor \in CursorInputs, limit \in LimitInputs :
        /\ pager.state = "idle"
        /\ get_messages_guard(PageAid, PageChat, PageUser).status = 0
        /\ pager' = [ NoPager EXCEPT !.state = "query", !.limit = limit,
                                     !.cursor = cursor, !.committed = CommittedIds ]
        /\ UNCHANGED <<config, agents, chats, messages, nextXid, nextAgent, inflight,
                       pending, resp, deleted, authIn, authOut, dispatch>>

\* get_messages, lines 263-281 and the response_model of the route
PageReturn ==
    LET ret == get_messages_return(PageAid, PageChat, pager.cursor, pager.limit) IN
    /\ pager.state = "query"
    /\ pager' = [ pager EXCEPT !.state = "answered",
                               !.page = ret.value[1],
                               !.status = get_messages_response(ret).status ]
    /\ UNCHANGED <<config, agents, chats, messages, nextXid, nextAgent, inflight,
                   pending, resp, deleted, authIn, authOut, dispatch>>

PagingNext ==
    \/ PageAccept
    \/ SendSave
    \/ PageRequest
    \/ PageReturn

SpecPage == PageInit /\ [][PagingNext]_vars

(***************************************************************************)
(* The handlers that read and write threads, over a store that holds an    *)
(* agent, a thread of its owner and a message in it: threads are created,  *)
(* read, listed, updated and deleted by the owner and by another caller    *)
(* while requests of create_chat and delete_chat are suspended at their    *)
(* awaits. get_messages writes nothing, so the stores reached are those of *)
(* the API with it.                                                        *)
(***************************************************************************)
ThreadsInit ==
    /\ config = LocalConfig
    /\ agents = { [id |-> 1, owner |-> "u1"] }
    /\ chats = { [id |-> 1, agent_id |-> 1, user_id |-> "u1", summary |-> "", rounds |-> 0] }
    /\ messages = { [ id |-> 2, agent_id |-> 1, chat_id |-> 1,
                      user_id |-> "u1", author_id |-> "u1",
                      author_type |-> "api", thread_type |-> "api",
                      message |-> "hello" ] }
    /\ nextXid = 3
    /\ nextAgent = 2
    /\ inflight = {}
    /\ pending = EmptyBag
    /\ resp = NoResp
    /\ deleted = {}
    /\ authIn = NoCred
    /\ authOut = NotInvoked
    /\ pager = NoPager
    /\ dispatch = NoDispatch

ThreadsCreate == CreateChatUpTo(MaxThreadXid)

ThreadsNext ==
    \/ Health
    \/ ThreadsCreate
    \/ CreateChatSave
    \/ CreateChatReturn
    \/ GetChats
    \/ GetChat
    \/ UpdateChat
    \/ DeleteChat
    \/ DeleteChatDelete
    \/ GetMessage
    \/ GetAgent
    \/ GetAgentReturn
    \/ RetryMessage
    \/ Deliver

SpecThreads == ThreadsInit /\ [][ThreadsNext]_vars

(***************************************************************************)
(* The agent router alone: agents are created and read.                    *)
(***************************************************************************)
AgentsInit == Init

AgentsCreate == CreateAgentUpTo(MaxAgentIds, MaxPending)

AgentsNext ==
    \/ AgentsCreate
    \/ CreateAgentCreate
    \/ CreateAgentReturn
    \/ GetAgent
    \/ GetAgentReturn
    \/ Deliver

SpecAgents == AgentsInit /\ [][AgentsNext]_vars

(***************************************************************************)
(* Messages sent to a stored thread, by its owner and by other callers,    *)
(* with several requests in flight at once.                                *)
(***************************************************************************)
SendInit ==
    /\ config = LocalConfig
    /\ agents = { [id |-> PageAid, owner |-> PageUser] }
    /\ chats = { [id |-> PageChat, agent_id |-> PageAid, user_id |-> PageUser,
                  summary |-> "", rounds |-> 0] }
    /\ messages = {}
    /\ nextXid = PageChat + 1
    /\ nextAgent = PageAid + 1
    /\ inflight = {}
    /\ pending = EmptyBag
    /\ resp = NoResp
    /\ deleted = {}
    /\ authIn = NoCred
    /\ authOut = NotInvoked
    /\ pager = NoPager
    /\ dispatch = NoDispatch

SendToThread == SendStartUpTo(MaxSendXid, MaxSendInflight)

SendNext ==
    \/ SendToThread
    \/ SendSave
    \/ ExecuteReturn
    \/ ExecuteRaise
    \/ StreamStart
    \/ StreamEnd
    \/ StreamRaise
    \/ Deliver

SpecSend == SendInit /\ [][SendNext]_vars

(***************************************************************************)
(* The dispatch of send_message, lines 327-336, with what the backend      *)
(* produces: buffered (execute_agent) or streamed (stream_gen over         *)
(* stream_agent, consumed by the StreamingResponse).                       *)
(***************************************************************************)
Chunk(k) == [ id |-> k, author_type |-> "agent" ]
Produced(n) == [ k \in 1..n |-> Chunk(k) ]

\* what the backend does for one message: the messages it produces in
\* order, and whether it raises after the last of them
BackendScripts == [ chunks : { Produced(n) : n \in 0..MaxChunks }, fails : BOOLEAN ]

\* execute_agent(user_message): returns what it produced, or raises
execute_agent(script) == [ raised |-> script.fails, produced |-> script.chunks ]

\* mutant: what was produced before the failure is returned
buffered_response_partial(result) == [ status |-> 200, body |-> result.produced ]

\* lines 335-336: the list is returned; an exception leaves the handler
buffered_response(result) ==
    IF result.raised THEN [ status |-> 500, body |-> <<>> ]
    ELSE [ status |-> 200, body |-> result.produced ]

\* chunk.model_dump_json() + "\n"
model_dump_json_line(chunk) == [ json |-> chunk, end |-> "\n" ]

\* mutant: the unit is sent without its newline
stream_gen_yield_unterminated(emitted, chunk) ==
    Append(emitted, [ json |-> chunk, end |-> "" ])

\* line 331: yield of one serialized chunk
stream_gen_yield(emitted, chunk) == Append(emitted, model_dump_json_line(chunk))

StreamPcs == {"ready", "pulling", "yielding", "ended", "failed", "cancelled"}

DispatchInit == Init

\* line 335: await execute_agent(user_message)
DispatchBuffered ==
    \E script \in BackendScripts :
        /\ dispatch.pc = "idle"
        /\ dispatch' = [NoDispatch EXCEPT !.pc = "executing", !.chunks = script.chunks,
                                          !.fails = script.fails, !.client = "connected"]
        /\ UNCHANGED <<config, agents, chats, messages, nextXid, nextAgent, inflight,
                       resp, deleted, authIn, authOut, pager, pending>>

\* lines 335-336: execute_agent is over and the request is answered
BufferedRespond ==
    LET r == buffered_response(execute_agent([chunks |-> dispatch.chunks,
                                              fails |-> dispatch.fails]))
    IN /\ dispatch.pc = "executing"
       /\ dispatch' = [dispatch EXCEPT !.pc = "done", !.status = r.status, !.body = r.body]
       /\ UNCHANGED <<config, agents, chats, messages, nextXid, nextAgent, inflight,
                      resp, deleted, authIn, authOut, pager, pending>>

\* line 333: the StreamingResponse over stream_gen() is returned
DispatchStream ==
    \E script \in BackendScripts :
        /\ dispatch.pc = "idle"
        /\ dispatch' = [NoDispatch EXCEPT !.pc = "ready", !.chunks = script.chunks,
                                          !.fails = script.fails, !.status = 200,
                                          !.client = "connected"]
        /\ UNCHANGED <<config, agents, chats, messages, nextXid, nextAgent, inflight,
                       resp, deleted, authIn, authOut, pager, pending>>

\* line 330: stream_gen is resumed and asks stream_agent for the next chunk;
\* stream_gen does not look at the client, and the response goes on resuming
\* it after the client has left, until it sees the disconnect
StreamPull ==
    /\ dispatch.pc = "ready"
    /\ dispatch' = [dispatch EXCEPT !.pc = "pulling", !.pulled = dispatch.pulled + 1]
    /\ UNCHANGED <<config, agents, chats, messages, nextXid, nextAgent, inflight,
                   resp, deleted, authIn, authOut, pager, pending>>

\* line 330: stream_agent hands over the chunk asked for
BackendYield ==
    /\ dispatch.pc = "pulling"
    /\ dispatch.pulled <= Len(dispatch.chunks)
    /\ dispatch' = [dispatch EXCEPT !.pc = "yielding"]
    /\ UNCHANGED <<config, agents, chats, messages, nextXid, nextAgent, inflight,
                   resp, deleted, authIn, authOut, pager, pending>>

\* line 330: stream_agent is exhausted
BackendEnd ==
    /\ dispatch.pc = "pulling"
    /\ dispatch.pulled > Len(dispatch.chunks)
    /\ ~dispatch.fails
    /\ dispatch' = [dispatch EXCEPT !.pc = "ended"]
    /\ UNCHANGED <<config, agents, chats, messages, nextXid, nextAgent, inflight,
                   resp, deleted, authIn, authOut, pager, pending>>

\* line 330: stream_agent raises instead of a next chunk
BackendRaise ==
    /\ dispatch.pc = "pulling"
    /\ dispatch.pulled > Len(dispatch.chunks)
    /\ dispatch.fails
    /\ dispatch' = [dispatch EXCEPT !.pc = "failed"]
    /\ UNCHANGED <<config, agents, chats, messages, nextXid, nextAgent, inflight,
                   resp, deleted, authIn, authOut, pager, pending>>

\* line 331: the chunk is serialized and yielded to the response
StreamEmit ==
    /\ dispatch.pc = "yielding"
    /\ dispatch' = [dispatch EXCEPT
                       !.pc = "ready",
                       !.emitted = stream_gen_yield(dispatch.emitted,
                                                    dispatch.chunks[dispatch.pulled])]
    /\ UNCHANGED <<config, agents, chats, messages, nextXid, nextAgent, inflight,
                   resp, deleted, authIn, authOut, pager, pending>>

\* the client of a streamed response goes away
ClientDisconnect ==
    /\ dispatch.pc \in {"ready", "pulling", "yielding"}
    /\ dispatch.client = "connected"
    /\ dispatch' = [dispatch EXCEPT !.client = "gone"]
    /\ UNCHANGED <<config, agents, chats, messages, nextXid, nextAgent, inflight,
                   resp, deleted, authIn, authOut, pager, pending>>

\* line 333: the response sees that the client is gone (its receive returns
\* the disconnect, or its send raises) and stream_gen is cancelled where it
\* stands
StreamCancel ==
    /\ dispatch.pc \in {"ready", "pulling", "yielding"}
    /\ dispatch.client = "gone"
    /\ dispatch' = [dispatch EXCEPT !.pc = "cancelled"]
    /\ UNCHANGED <<config, agents, chats, messages, nextXid, nextAgent, inflight,
                   resp, deleted, authIn, authOut, pager, pending>>

DispatchNext ==
    \/ DispatchBuffered
    \/ BufferedRespond
    \/ DispatchStream
    \/ StreamPull
    \/ BackendYield
    \/ BackendEnd
    \/ BackendRaise
    \/ StreamEmit
    \/ ClientDisconnect
    \/ StreamCancel

SpecDispatch == DispatchInit /\ [][DispatchNext]_vars

(***************************************************************************)
(* Properties.                                                             *)
(***************************************************************************)
Callers == Users \cup {TEST_USER_ID}
AnyAid == 0..(MaxAgents + 1)

Ids(rows) == [ i \in 1..Len(rows) |-> rows[i].id ]
Elems(seq) == { seq[i] : i \in 1..Len(seq) }

\* the message ids the client of get_messages holds once it is answered
Received == IF pager.status = 200 THEN Ids(pager.page.data) ELSE <<>>

\* C1: the first call of get_messages on a thread, without a cursor, is
\* answered with the thread's messages in strictly decreasing id order, each
\* once and no others, and with no write in between a page with has_more
\* false has brought every message of the thread; with has_more true the
\* client holds the cursor of the next call.
C1_PaginationComplete ==
    (pager.state = "answered" /\ ~CursorGiven(pager.cursor)) =>
        /\ pager.status = 200
        /\ \A i \in 1..(Len(Received) - 1) : Received[i] > Received[i + 1]
        /\ Elems(Received) \subseteq CommittedIds
        /\ (pager.committed = CommittedIds /\ ~pager.page.has_more)
              => (Elems(Received) = CommittedIds /\ Len(Received) = Cardinality(CommittedIds))

NotFound(o, detail) ==
    /\ o.status = 404
    /\ o.detail = detail
    /\ o.body = <<>>
    /\ o.agents = agents /\ o.chats = chats /\ o.messages = messages

\* C2: every ownership-guarded operation answers a caller who is not the
\* owner, or whose path agent id is not the thread's, exactly as it answers
\* a request for an id that does not exist: 404 with the same body, and the
\* storage is left as it was.
C2_NotFoundUniform ==
    /\ \A c \in chats : \A aid \in AidInputs \cup {c.agent_id}, u \in Callers :
          (aid # c.agent_id \/ u # c.user_id) =>
             LET nf == HTTPException(404, "Chat not found") IN
             /\ NotFound(nf, "Chat not found")
             /\ get_chat(aid, c.id, u) = nf /\ get_chat(aid, BogusId, u) = nf
             /\ update_chat(aid, c.id, u) = nf /\ update_chat(aid, BogusId, u) = nf
             /\ delete_chat_guard(aid, c.id, u) = nf
             /\ delete_chat_guard(aid, BogusId, u) = nf
             /\ get_messages_guard(aid, c.id, u) = nf
             /\ get_messages_guard(aid, BogusId, u) = nf
    /\ \A m \in messages, u \in Callers :
          u # m.user_id =>
             /\ get_message(m.id, u) = get_message(BogusId, u)
             /\ NotFound(get_message(m.id, u), "Message not found")
    /\ \A a \in agents, u \in Callers :
          u # a.owner =>
             /\ get_agent_guard(a.id, u) = get_agent_guard(BogusId, u)
             /\ NotFound(get_agent_guard(a.id, u), "Agent not found")
    /\ (resp.target = "foreign" /\ resp.op \in {"get_chat", "update_chat", "delete_chat",
                                               "get_messages", "get_message", "get_agent"})
          => (resp.status = 404 /\ ~resp.changed)

\* delete_chat on a stored thread of another caller was answered 404
C2_Witness ==
    /\ resp.op = "delete_chat"
    /\ resp.target = "foreign"
    /\ resp.status = 404
    /\ ~resp.changed
    /\ chats # {}

\* C3: every stored message belongs to a stored thread of the same agent.
C3_MessagesBelongToThreads ==
    \A m \in messages :
        \E c \in chats : c.id = m.chat_id /\ c.agent_id = m.agent_id

\* C4: a thread is created only under a stored agent owned by the caller,
\* and create_chat on an agent id that does not exist answers 404 and
\* stores nothing.
C4_ThreadsBelongToAgents ==
    /\ (resp.op = "create_chat" /\ resp.status = 200) => resp.target = "own"
    /\ (resp.op = "create_chat" /\ resp.target = "absent") =>
          (resp.status = 404 /\ ~resp.changed)

\* C5: once delete_chat has answered 204 for a thread id, the thread is not
\* stored in any later state, and get_chat, update_chat, get_messages and
\* delete_chat that arrive later answer 404 for that id to every caller
\* under every agent id.
C5_DeletionTerminal ==
    /\ \A chat_id \in deleted, aid \in AnyAid, u \in Callers :
          /\ ~Chat_exists(chat_id)
          /\ get_chat(aid, chat_id, u).status = 404
          /\ update_chat(aid, chat_id, u).status = 404
          /\ get_messages_guard(aid, chat_id, u).status = 404
          /\ delete_chat_guard(aid, chat_id, u).status = 404
    /\ resp.target = "deleted" => resp.status = 404

\* get_chat was answered 404 for a thread id deleted before
C5_Witness ==
    /\ resp.op = "get_chat"
    /\ resp.target = "deleted"
    /\ resp.status = 404

DispatchFailed ==
    \/ (resp.op = "send_message" /\ resp.status = 500)
    \/ resp.op = "stream_abort"

\* C6: the user message is committed to the log before the backend is
\* invoked, and after a failed dispatch (execute_agent raised, or the stream
\* aborted) it is still in the log and readable by its author.
C6_MessageSurvivesDispatch ==
    /\ \A r \in inflight : r.pc \in {"dispatch", "streaming"} => r.msg \in messages
    /\ DispatchFailed =>
          /\ ChatMessage_exists(resp.id)
          /\ get_message(resp.id, ChatMessage_get(resp.id).user_id).status = 200

local_mode(cfg) == ~external_mode(cfg) /\ Truthy(cfg.jwt_secret)
Presented == authOut # NotInvoked /\ authIn.header.scheme = "bearer"
InvalidOrExpired(o) ==
    o.status = 401 /\ o.detail = "Invalid or expired token" /\ o.user = None

SignedWithConfigured(token) ==
    /\ token.form = "jwt"
    /\ token.alg = "HS256"
    /\ token.sig = Sign(config.jwt_secret, token.payload)
    /\ ~token.payload.expired

\* C7: in local-secret mode every unexpired HS256 token signed with the
\* configured secret is accepted, with its subject as the identity when it
\* carries one, and every token signed with another secret gives 401
\* invalid-or-expired.
C7_SignedGivesSubject ==
    (Presented /\ local_mode(config) /\ authIn.header.token.form = "jwt") =>
        LET token == authIn.header.token IN
        /\ SignedWithConfigured(token) =>
              /\ authOut.status = 200
              /\ token.payload.sub # NoSub => authOut.user = token.payload.sub
        /\ token.sig[1] # config.jwt_secret => InvalidOrExpired(authOut)

\* C8: a verification that fails gives 401 'Invalid or expired token' and
\* no identity; in external-identity mode an identity is returned only when
\* the token verification and the user lookup both succeed; in local-secret
\* mode only for a token that decodes and carries a subject.
C8_FailureCollapses ==
    (Presented /\ authIn.header.token.form # "empty") =>
        /\ authOut.status = 200 \/ InvalidOrExpired(authOut)
        /\ authOut.status = 200 => authOut.user # None
        /\ external_mode(config) =>
              /\ authOut.status = 200 <=> (authIn.pv # "raise" /\ authIn.pg # "raise")
              /\ authOut.status = 200 => authOut.user = authIn.pv
        /\ local_mode(config) =>
              (authOut.status = 200 <=>
                  /\ jwt_decode(authIn.header.token, config.jwt_secret).ok
                  /\ authIn.header.token.payload.sub # NoSub)

\* the provider verified the token and the user lookup failed
C8_Witness ==
    /\ Presented
    /\ external_mode(config)
    /\ authIn.header.token.form # "empty"
    /\ authIn.pv \in Users
    /\ authIn.pg = "raise"
    /\ InvalidOrExpired(authOut)

Configured(cfg) ==
    \/ Truthy(cfg.privy_app_id)
    \/ Truthy(cfg.privy_api_key)
    \/ Truthy(cfg.jwt_secret)

\* C9: the placeholder identity of the open mode is never returned under a
\* configuration that sets an external-provider secret or a local secret.
C9_OpenModeOnlyUnconfigured ==
    authOut.branch = "open" => ~Configured(config)

BadHeaders == { NoHeader,
                Bearer(EmptyToken),
                Bearer(GarbageToken),
                [scheme |-> "basic", token |-> GarbageToken],
                Bearer(jwt_encode(GoodPayload("u1"), "s2", "HS256")),
                Bearer(jwt_encode([sub |-> "u1", aud |-> NoAud, expired |-> TRUE], "s1", "HS256")) }

\* get_user_id, lines 16-22: without a token, or with an empty one, the
\* answer is 401 under every configuration
NoTokenRefused ==
    \A cfg \in Configs, h \in {NoHeader, Bearer(EmptyToken)} :
        Auth(cfg, LocalCred(h)).status = 401

\* the endpoints behind Depends(get_user_id), with the stream of send_message
GuardedOps == { "create_agent", "get_agent", "get_chats", "create_chat", "get_chat",
                "update_chat", "delete_chat", "get_messages", "get_message",
                "retry_message", "send_message" }

\* the identities under which a handler body is running or has written
Acting == { p.user : p \in BagToSet(pending) } \cup { p.owner : p \in BagToSet(pending) }
          \cup { r.msg.user_id : r \in inflight }
          \cup { a.owner : a \in agents }
          \cup { c.user_id : c \in chats }
          \cup { m.user_id : m \in messages }

\* C10: a request to an endpoint other than /health with no token, an empty
\* token or a token that fails verification is answered 401 and its handler
\* body does not run: the step that refuses it stores, changes and removes
\* no agent, thread or message, takes no id, suspends no request at an
\* await and hands nothing to the backend, and nothing stored, suspended or
\* in flight is without a verified identity; every refused request was sent
\* to one of the guarded endpoints; /health answers 200 with no credential.
C10_BearerRequired ==
    /\ [](/\ (resp.auth = "fail") =>
                (resp.status = 401 /\ ~resp.changed /\ resp.op \in GuardedOps)
          /\ resp.op \in GuardedOps => resp.auth \in {"ok", "fail"}
          /\ resp.op = "health" => (resp.status = 200 /\ resp.auth = "none")
          /\ health_check.status = 200
          /\ NoTokenRefused
          /\ \A h \in BadHeaders :
                /\ Auth(config, LocalCred(h)).status = 401
                /\ Auth(config, LocalCred(h)).user = None
          /\ None \notin Acting
          /\ Acting \subseteq Callers)
    /\ [][(resp'.auth = "fail" /\ resp.auth # "fail") =>
             /\ agents' = agents
             /\ chats' = chats
             /\ messages' = messages
             /\ deleted' = deleted
             /\ pending' = pending
             /\ inflight' = inflight
             /\ nextXid' = nextXid
             /\ nextAgent' = nextAgent]_vars

\* send_message without a valid credential was answered 401 with an agent
\* stored: no message was built, stored or dispatched
C10_Witness ==
    /\ resp.op = "send_message"
    /\ resp.auth = "fail"
    /\ resp.status = 401
    /\ agents # {}
    /\ inflight = {}
    /\ messages = {}
    /\ nextXid = 1

AnyChat == 0..(MaxXid + 1)

\* C14: for an authenticated caller retry_message answers 501 for every
\* agent id and chat id, stored or not; the step stores no message, starts
\* no backend execution and leaves agents, threads and messages as they were.
C14_RetryNotImplemented ==
    /\ [](/\ \A aid \in AnyAid, chat_id \in AnyChat, u \in Callers :
               LET o == retry_message(aid, chat_id, u) IN
               /\ o.status = 501
               /\ o.body = <<>>
               /\ o.agents = agents /\ o.chats = chats /\ o.messages = messages
          /\ (resp.op = "retry_message" /\ resp.auth = "ok")
                => (resp.status = 501 /\ ~resp.changed))
    /\ [][(resp'.op = "retry_message" /\ resp.op # "retry_message") =>
             /\ inflight' = inflight
             /\ pending' = pending
             /\ messages' = messages
             /\ chats' = chats
             /\ agents' = agents
             /\ nextXid' = nextXid]_vars

\* retry_message was answered 501 to an authenticated caller with an agent stored
C14_Witness ==
    /\ resp.op = "retry_message"
    /\ resp.auth = "ok"
    /\ resp.status = 501
    /\ agents # {}

\* the threads a listing for (aid, u) must leave out
Foreign(aid, u) == { c \in chats : c.agent_id # aid \/ c.user_id # u }

C20_UpdateChangesNothing ==
    /\ \A c \in chats :
          LET o == update_chat(c.agent_id, c.id, c.user_id) IN
          /\ o.status = 200
          /\ o.body = <<c>>
          /\ o.chats = chats /\ o.agents = agents /\ o.messages = messages
    /\ resp.op = "update_chat" => ~resp.changed
    /\ (resp.op = "update_chat" /\ resp.target = "own") => resp.status = 200

\* update_chat was answered 200 to the owner of a stored thread
C20_Witness ==
    /\ resp.op = "update_chat"
    /\ resp.target = "own"
    /\ resp.status = 200
    /\ ~resp.changed

AgentIds == { a.id : a \in agents }

\* the create_agent requests between their awaits
Creating(pc) == { p \in BagToSet(pending) : p.op = "create_agent" /\ p.pc = pc }

Matching(aid, chat_id, cursor) ==
    { m \in messages : /\ m.agent_id = aid
                       /\ m.chat_id = chat_id
                       /\ (cursor # NoCursor => m.id < cursor) }

\* C18: on every page of get_messages, has_more is true exactly when more
\* than limit messages match (the thread, and id < cursor when a cursor is
\* given); the page holds min(limit, matching) messages, the highest ids, in
\* decreasing order; next_cursor is the id of the last message of the page
\* when has_more and null otherwise; with exactly limit matching, has_more
\* is false.
C18_PageShape ==
    \A cursor \in {NoCursor} \cup (1..(MaxPageXid + 1)), limit \in LimitInputs :
        LET page == get_messages_return(PageAid, PageChat, cursor, limit).value[1]
            match == Matching(PageAid, PageChat, cursor)
            n == Cardinality(match)
            k == Len(page.data)
        IN /\ page.has_more <=> (n > limit)
           /\ k = (IF n < limit THEN n ELSE limit)
           /\ Elems(page.data) \subseteq match
           /\ \A i \in 1..(k - 1) : page.data[i].id > page.data[i + 1].id
           /\ \A m \in match \ Elems(page.data) :
                 \A i \in 1..k : m.id < page.data[i].id
           /\ page.next_cursor = (IF page.has_more THEN page.data[k].id ELSE NoCursor)
           /\ (n = limit) => (~page.has_more /\ page.next_cursor = NoCursor)

\* the handler returned a page for a cursor below which exactly limit
\* messages were stored
C18_Witness ==
    /\ pager.state = "answered"
    /\ pager.limit = 2
    /\ CursorGiven(pager.cursor)
    /\ Len(pager.page.data) = pager.limit
    /\ ~pager.page.has_more

ThreadStored(aid, chat_id) ==
    \E c \in chats : c.id = chat_id /\ c.agent_id = aid

\* C17: after a buffered send_message to a stored thread was answered 200,
\* get_messages for that thread by the same caller answers 200 with a page
\* that holds the message, and get_message for its id answers 200 with it.
C17_SentMessageReadable ==
    (resp.op = "send_message" /\ resp.status = 200) =>
        /\ ChatMessage_exists(resp.id)
        /\ LET m == ChatMessage_get(resp.id) IN
           ThreadStored(m.agent_id, m.chat_id) =>
              /\ m.message \in Texts
              /\ get_messages_guard(m.agent_id, m.chat_id, m.user_id).status = 0
              /\ LET o == get_messages_response(
                              get_messages_return(m.agent_id, m.chat_id, NoCursor, MaxLimit))
                 IN /\ o.status = 200
                    /\ m \in Elems(o.body[1].data)
              /\ get_message(m.id, m.user_id).status = 200
              /\ get_message(m.id, m.user_id).body = <<m>>

\* C19: a message of a stored thread is committed with an id greater than
\* the id of every message of that thread committed before it, also when
\* several send_message requests are in flight.
C19_IdOrderIsCommitOrder ==
    [][\A m \in messages' \ messages :
          ThreadStored(m.agent_id, m.chat_id) =>
             \A n \in messages :
                 (n.agent_id = m.agent_id /\ n.chat_id = m.chat_id) => n.id < m.id]_vars

\* C11: a buffered dispatch returns nothing before execute_agent is over;
\* when execute_agent returns, the response is 200 with exactly the
\* messages it produced, in production order; when it raises, the response
\* is a server error with none of them.
C11_BufferedAllOrNothing ==
    /\ dispatch.pc = "executing" => (dispatch.status = 0 /\ dispatch.body = <<>>)
    /\ dispatch.pc = "done" =>
          /\ ~dispatch.fails => (dispatch.status = 200 /\ dispatch.body = dispatch.chunks)
          /\ dispatch.fails => (dispatch.status = 500 /\ dispatch.body = <<>>)

\* execute_agent raised after producing two messages or more
C11_Witness ==
    /\ dispatch.pc = "done"
    /\ dispatch.fails
    /\ Len(dispatch.chunks) >= 2
    /\ dispatch.status = 500

IsPrefix(a, b) ==
    /\ Len(a) <= Len(b)
    /\ \A i \in 1..Len(a) : a[i] = b[i]

\* C12: what a streamed dispatch has emitted is at every moment the first
\* chunks of the backend in order, one newline-terminated unit per chunk;
\* chunk k+1 is asked for only when chunk k has been emitted; what was
\* emitted stays emitted, and nothing is emitted after the backend raised,
\* ended, or the stream was cancelled.
C12_StreamIsOrderedPrefix ==
    /\ [](dispatch.pc \in StreamPcs =>
            /\ Len(dispatch.emitted) <= Len(dispatch.chunks)
            /\ \A i \in 1..Len(dispatch.emitted) :
                  /\ dispatch.emitted[i].json = dispatch.chunks[i]
                  /\ dispatch.emitted[i].end = "\n"
            /\ dispatch.pc = "ready" => dispatch.pulled = Len(dispatch.emitted)
            /\ dispatch.pc \in {"pulling", "yielding", "ended", "failed"}
                  => dispatch.pulled = Len(dispatch.emitted) + 1
            /\ dispatch.pc = "cancelled"
                  => dispatch.pulled \in {Len(dispatch.emitted), Len(dispatch.emitted) + 1})
    /\ [][/\ dispatch.pc \in StreamPcs => IsPrefix(dispatch.emitted, dispatch'.emitted)
          /\ dispatch.pc \in {"ended", "failed", "cancelled"}
                => dispatch'.emitted = dispatch.emitted]_vars

\* the backend raised after its second chunk and both chunks are sent
C12_Witness ==
    /\ dispatch.pc = "failed"
    /\ Len(dispatch.chunks) = 2
    /\ Len(dispatch.emitted) = 2

\* C13: once the client of a streamed dispatch is gone, no further chunk is
\* asked of the backend.
C13_NoPullAfterDisconnect ==
    [][dispatch.client = "gone" => dispatch'.pulled = dispatch.pulled]_vars

(***************************************************************************)
(* C21: the user_id and the author_id of the message send_message persists *)
(* are the identity the credential verifier gave for the request's token,  *)
(* never the user_id field of the request body: every message built or     *)
(* stored carries one identity in both fields, an identity some accepted   *)
(* credential stands for and none of the bodies names alone, and two       *)
(* requests of one caller that differ only in the body's user_id build     *)
(* messages with the same user_id and author_id, the caller's identity.    *)
(***************************************************************************)
AcceptedIdentities == { Auth(config, cred).user :
                          cred \in { c \in ApiCreds : Auth(config, c).status = 200 } }

Built == messages \cup { r.msg : r \in inflight }

C21_IdentityFromTokenOnly ==
    /\ \A m \in Built :
          /\ m.user_id = m.author_id
          /\ m.user_id \in AcceptedIdentities
    /\ \A u \in AcceptedIdentities, aid \in AidInputs, chat_id \in {PageChat, BogusId} :
          \A r1 \in SendRequests, r2 \in SendRequests :
              (r1.user_id # r2.user_id /\ r1.message = r2.message /\ r1.stream = r2.stream)
              => LET m1 == ChatMessageCreate(aid, chat_id, u, r1)
                     m2 == ChatMessageCreate(aid, chat_id, u, r2)
                 IN /\ m1.user_id = u /\ m1.author_id = u
                    /\ m2.user_id = u /\ m2.author_id = u
                    /\ m1 = m2

\* a stored message of caller u1, u1 being a user no request body names
C21_Witness ==
    /\ "u1" \notin BodyUsers
    /\ \E m \in messages : m.user_id = "u1" /\ m.author_id = "u1"
    /\ \E m \in messages : m.user_id = "u2"

(***************************************************************************)
(* C22: a client of get_messages on a thread that other requests append to *)
(* receives no message twice, and once it holds a page with has_more false *)
(* it has received every message of the thread that was committed before   *)
(* its first request.                                                      *)
(***************************************************************************)
C22_LivePagingSound ==
    /\ \A i \in 1..Len(Received), j \in 1..Len(Received) :
          i # j => Received[i] # Received[j]
    /\ (pager.state = "answered" /\ ~CursorGiven(pager.cursor) /\ ~pager.page.has_more)
          => pager.committed \subseteq Elems(Received)
====
